---------------------------- MODULE Spec2Model ----------------------------
(***************************************************************************)
(* State-machine model of rk-utils (src/src/index.js):                     *)
(*   - the dot-path accessor: getValueByPath, setValueByPath,             *)
(*     hasKeyByPath, putIntoBucket                                         *)
(*   - the sequential orchestrator: eachPromise_, ifAnyPromise_,           *)
(*     eachAsync_                                                          *)
(*                                                                         *)
(* JavaScript values are records [t, n]: t is the type tag, n the payload  *)
(* (a number, a boolean as 0/1, an object id; the string Str(k) is k       *)
(* letters "a", so Str(0) is the empty string).                            *)
(* Objects and arrays live in a heap (a sequence of cells); a reference    *)
(* value carries the cell's index, so identity and in-place mutation are   *)
(* modelled.  Property names are sequences of one-character strings.       *)
(* Property names in the model never spell "length" or a member of         *)
(* Object.prototype, so own properties are all an index or `in` can see.   *)
(***************************************************************************)
EXTENDS Integers, Sequences, FiniteSets, TLC

\* ------------------------------------------------------------------ bounds
\* longest dot-separated path string, in characters
MaxPathLen == 3
\* longest explicit segment sequence
MaxSegs == 2
\* longest list of promise factories / longest collection of eachAsync_
MaxFactories == 3
\* most calls in one putIntoBucket scenario
MaxPuts == 3
\* waitUntil_: the largest maxRounds passed
MaxRounds == 3
\* runCmdLive_: the number of events the child process emits
MaxEvents == 4
\* the string helpers: the longest string and the largest number of parts
MaxStrLen == 2
MaxParts == 2

\* ------------------------------------------------------------------ values
Undefined == [t |-> "undefined", n |-> 0]
Null      == [t |-> "null", n |-> 0]
False     == [t |-> "bool", n |-> 0]
True      == [t |-> "bool", n |-> 1]
Num(k)    == [t |-> "num", n |-> k]
Str(k)    == [t |-> "str", n |-> k]
Ref(id)   == [t |-> "ref", n |-> id]
Err(k)    == [t |-> "error", n |-> k]

\* _.isNil
IsNil(v) == v.t \in {"undefined", "null"}

\* ToBoolean
Truthy(v) ==
    CASE v.t \in {"undefined", "null"} -> FALSE
      [] v.t \in {"bool", "num"}       -> v.n # 0
      [] v.t = "str"                   -> v.n # 0
      [] OTHER                         -> TRUE

\* typeof v === 'object' && v !== null
IsObject(v) == v.t = "ref"

\* ------------------------------------------------------------------- heap
Digits == <<"0", "1", "2", "3", "4", "5", "6", "7", "8", "9">>

IsDigit(c) == \E i \in DOMAIN Digits : Digits[i] = c

DigitOf(c) == (CHOOSE i \in DOMAIN Digits : Digits[i] = c) - 1

\* a canonical array index (of one or two digits in the model)
IsIndexKey(key) ==
    \/ Len(key) = 1 /\ IsDigit(key[1])
    \/ Len(key) = 2 /\ IsDigit(key[1]) /\ IsDigit(key[2]) /\ key[1] # "0"

IndexOf(key) ==
    IF Len(key) = 1 THEN DigitOf(key[1])
    ELSE 10 * DigitOf(key[1]) + DigitOf(key[2])

\* String(j) for an array index j
IndexKey(j) ==
    IF j < 10 THEN <<Digits[j + 1]>>
    ELSE <<Digits[(j \div 10) + 1], Digits[(j % 10) + 1]>>

\* String(undefined): the key that `undefined` is coerced to
UndefinedKey == <<"u", "n", "d", "e", "f", "i", "n", "e", "d">>

NoProps == [k \in {} |-> Undefined]

\* {}
EmptyObj == [kind |-> "obj", props |-> NoProps, len |-> 0]

\* key in value, for an object or array value
HasProp(h, v, key) == key \in DOMAIN h[v.n].props

\* value[key] for a value that is not null or undefined
Index(h, v, key) ==
    CASE v.t = "ref" ->
            IF key \in DOMAIN h[v.n].props THEN h[v.n].props[key] ELSE Undefined
      [] v.t = "str" ->
            IF IsIndexKey(key) /\ IndexOf(key) < v.n
            THEN Str(1) ELSE Undefined
      [] OTHER -> Undefined

\* object[key] = val on an object or array cell
PutProp(h, id, key, val) ==
    LET c == h[id]
        p == [k \in DOMAIN c.props \cup {key} |-> IF k = key THEN val ELSE c.props[k]]
        l == IF c.kind = "arr" /\ IsIndexKey(key) /\ IndexOf(key) >= c.len
             THEN IndexOf(key) + 1 ELSE c.len
    IN  [h EXCEPT ![id] = [kind |-> c.kind, props |-> p, len |-> l]]

\* _.isArray
IsArray(h, v) == v.t = "ref" /\ h[v.n].kind = "arr"

\* the elements of an array, in index order
Items(h, v) == [j \in 1..h[v.n].len |-> Index(h, v, IndexKey(j - 1))]

\* [x1, .., xn]
ArrayOf(items) ==
    [kind |-> "arr", len |-> Len(items),
     props |-> [k \in {IndexKey(j - 1) : j \in DOMAIN items} |-> items[IndexOf(k) + 1]]]

\* a variant that adds the value in front (unshift)
ArrayPush_unshift(h, v, value) ==
    [h EXCEPT ![v.n] = ArrayOf(<<value>> \o Items(h, v))]

\* bucket.push(value)
ArrayPush(h, v, value) == PutProp(h, v.n, IndexKey(h[v.n].len), value)

\* ------------------------------------------------------------------ paths
Chars == {"a", "."}
SegKeys == {<<"a">>, <<"0">>, <<".">>}

RECURSIVE SplitRec(_, _)
SplitRec(s, cur) ==
    IF s = <<>> THEN <<cur>>
    ELSE IF Head(s) = "." THEN <<cur>> \o SplitRec(Tail(s), <<>>)
    ELSE SplitRec(Tail(s), Append(cur, Head(s)))

\* keyPath.split('.')
Split(s) == SplitRec(s, <<>>)

StrPath(s)  == [arr |-> FALSE, str |-> s, segs |-> <<>>]
ArrPath(ss) == [arr |-> TRUE, str |-> <<>>, segs |-> ss]

\* Array.isArray(keyPath) ? keyPath.concat() : keyPath.split('.')
Nodes(keyPath) == IF keyPath.arr THEN keyPath.segs ELSE Split(keyPath.str)

\* ------------------------------------------------------- dot-path accessor
TypeError == [t |-> "TypeError", n |-> 0]
\* new Error('Invalid collection object.')
InvalidCollection == [t |-> "Error", n |-> 0]

Return(v) == [st |-> "return", val |-> v]
Throw(e)  == [st |-> "throw", val |-> e]

\* _.find(nodes, elem => { value = value[elem]; return _.isNil(value); }):
\* the value the closure variable holds when find stops, or the TypeError
\* that indexing null/undefined raises
\* the variant whose callback returns typeof value === 'undefined'
RECURSIVE FindWalk_undefinedOnly(_, _, _)
FindWalk_undefinedOnly(h, value, nodes) ==
    IF nodes = <<>> THEN Return(value)
    ELSE IF IsNil(value) THEN Throw(TypeError)
    ELSE LET next == Index(h, value, Head(nodes))
         IN  IF next = Undefined THEN Return(next)
             ELSE FindWalk_undefinedOnly(h, next, Tail(nodes))

RECURSIVE FindWalk(_, _, _)
FindWalk(h, value, nodes) ==
    IF nodes = <<>> THEN Return(value)
    ELSE IF IsNil(value) THEN Throw(TypeError)
    ELSE LET next == Index(h, value, Head(nodes))
         IN  IF IsNil(next) THEN Return(next)
             ELSE FindWalk(h, next, Tail(nodes))

\* the variant that ends `return value || defaultValue`
getValueByPath_orDefault(h, collection, keyPath, defaultValue) ==
    IF IsNil(collection) THEN Return(defaultValue)
    ELSE LET w == FindWalk(h, collection, Nodes(keyPath))
         IN  IF w.st = "throw" THEN w
             ELSE IF ~Truthy(w.val) THEN Return(defaultValue)
             ELSE Return(w.val)

getValueByPath(h, collection, keyPath, defaultValue) ==
    LET nodes == Nodes(keyPath)
    IN  IF IsNil(collection) THEN Return(defaultValue)
        ELSE LET w == FindWalk(h, collection, nodes)
             IN  IF w.st = "throw" THEN w
                 ELSE IF IsNil(w.val) THEN Return(defaultValue)
                 ELSE Return(w.val)

\* nodes.pop(): the removed last element (undefined for an empty array)
PopKey(nodes) == IF nodes = <<>> THEN UndefinedKey ELSE nodes[Len(nodes)]
\* nodes after nodes.pop()
PopRest(nodes) == IF nodes = <<>> THEN <<>> ELSE SubSeq(nodes, 1, Len(nodes) - 1)

hasKeyByPath(h, collection, keyPath) ==
    IF ~Truthy(collection) THEN Return(False)
    ELSE LET nodes   == Nodes(keyPath)
             lastKey == PopKey(nodes)
             w       == FindWalk(h, collection, PopRest(nodes))
         IN  IF w.st = "throw" THEN w
             ELSE IF IsNil(w.val) THEN Return(False)
             \* `lastKey in value` raises a TypeError on a primitive
             ELSE IF ~IsObject(w.val) THEN Throw(TypeError)
             ELSE Return(IF HasProp(h, w.val, lastKey) THEN True ELSE False)

\* a variant that never descends: lastNode = lastNode[key] = {} at every key
RECURSIVE EachDescend_alwaysCreate(_, _, _)
EachDescend_alwaysCreate(h, lastNode, nodes) ==
    IF nodes = <<>> THEN [st |-> "return", heap |-> h, node |-> lastNode]
    ELSE IF ~IsObject(lastNode) THEN [st |-> "throw", heap |-> h, node |-> lastNode]
    ELSE LET id == Len(h) + 1
             h2 == Append(PutProp(h, lastNode.n, Head(nodes), Ref(id)), EmptyObj)
         IN  EachDescend_alwaysCreate(h2, Ref(id), Tail(nodes))

\* a variant that creates a missing intermediate as null
\* (lastNode = lastNode[key] = null)
RECURSIVE EachDescend_createsNull(_, _, _)
EachDescend_createsNull(h, lastNode, nodes) ==
    IF nodes = <<>> THEN [st |-> "return", heap |-> h, node |-> lastNode]
    ELSE IF ~IsObject(lastNode) THEN [st |-> "throw", heap |-> h, node |-> lastNode]
    ELSE IF HasProp(h, lastNode, Head(nodes))
         THEN EachDescend_createsNull(h, Index(h, lastNode, Head(nodes)), Tail(nodes))
         ELSE EachDescend_createsNull(PutProp(h, lastNode.n, Head(nodes), Null),
                                      Null, Tail(nodes))

\* _.each(nodes, key => { if (key in lastNode) lastNode = lastNode[key];
\*                        else lastNode = lastNode[key] = {}; })
RECURSIVE EachDescend(_, _, _)
EachDescend(h, lastNode, nodes) ==
    IF nodes = <<>> THEN [st |-> "return", heap |-> h, node |-> lastNode]
    ELSE IF ~IsObject(lastNode) THEN [st |-> "throw", heap |-> h, node |-> lastNode]
    ELSE IF HasProp(h, lastNode, Head(nodes))
         THEN EachDescend(h, Index(h, lastNode, Head(nodes)), Tail(nodes))
         ELSE LET id == Len(h) + 1
                  h2 == Append(PutProp(h, lastNode.n, Head(nodes), Ref(id)), EmptyObj)
              IN  EachDescend(h2, Ref(id), Tail(nodes))

\* a variant that assigns the leaf on the collection itself
setValueByPath_onRoot(h, collection, keyPath, value) ==
    IF IsNil(collection) \/ ~IsObject(collection)
    THEN [st |-> "throw", val |-> InvalidCollection, heap |-> h]
    ELSE LET nodes == Nodes(keyPath)
             d     == EachDescend(h, collection, PopRest(nodes))
         IN  IF d.st = "throw" \/ ~IsObject(d.node)
             THEN [st |-> "throw", val |-> TypeError, heap |-> d.heap]
             ELSE [st |-> "return", val |-> Undefined,
                   heap |-> PutProp(d.heap, collection.n, PopKey(nodes), value)]

\* a variant without the guard on the collection, outside strict mode:
\* assigning a property of a primitive does nothing
setValueByPath_sloppy(h, collection, keyPath, value) ==
    LET nodes   == Nodes(keyPath)
        lastKey == PopKey(nodes)
        d       == EachDescend(h, collection, PopRest(nodes))
    IN  IF d.st = "throw" \/ IsNil(d.node)
        THEN [st |-> "throw", val |-> TypeError, heap |-> d.heap]
        ELSE IF ~IsObject(d.node)
        THEN [st |-> "return", val |-> Undefined, heap |-> d.heap]
        ELSE [st |-> "return", val |-> Undefined,
              heap |-> PutProp(d.heap, d.node.n, lastKey, value)]

\* the outcome and the heap the call leaves
setValueByPath(h, collection, keyPath, value) ==
    IF IsNil(collection) \/ ~IsObject(collection)
    THEN [st |-> "throw", val |-> InvalidCollection, heap |-> h]
    ELSE LET nodes   == Nodes(keyPath)
             lastKey == PopKey(nodes)
             d       == EachDescend(h, collection, PopRest(nodes))
         IN  IF d.st = "throw" \/ ~IsObject(d.node)
             \* strict mode: assigning a property of a primitive, null or
             \* undefined raises a TypeError
             THEN [st |-> "throw", val |-> TypeError, heap |-> d.heap]
             ELSE [st |-> "return", val |-> Undefined,
                   heap |-> PutProp(d.heap, d.node.n, lastKey, value)]

\* a variant that tests the bucket's truthiness (!bucket) where the code
\* tests _.isNil(bucket)
putIntoBucket_falsyBucket(h, collection, key, value, flattenArray) ==
    LET g == getValueByPath(h, collection, key, Undefined)
        bucket == g.val
        flat == IsArray(h, value) /\ flattenArray
        fresh == Ref(Len(h) + 1)
        Stored(items) ==
            LET out == setValueByPath(Append(h, ArrayOf(items)), collection, key, fresh)
            IN  [st |-> out.st, heap |-> out.heap,
                 val |-> IF out.st = "return" THEN fresh ELSE out.val]
    IN  IF g.st = "throw" THEN [st |-> "throw", val |-> g.val, heap |-> h]
        ELSE IF IsArray(h, bucket)
        THEN IF flat
             THEN Stored(Items(h, bucket) \o Items(h, value))
             ELSE [st |-> "return", val |-> bucket, heap |-> ArrayPush(h, bucket, value)]
        ELSE IF ~Truthy(bucket)
        THEN Stored(IF flat THEN Items(h, value) ELSE <<value>>)
        ELSE Stored(IF flat THEN <<bucket>> \o Items(h, value) ELSE <<bucket, value>>)

\* a variant that never flattens
putIntoBucket_nested(h, collection, key, value, flattenArray) ==
    LET g == getValueByPath(h, collection, key, Undefined)
        bucket == g.val
        flat == FALSE
        fresh == Ref(Len(h) + 1)
        Stored(items) ==
            LET out == setValueByPath(Append(h, ArrayOf(items)), collection, key, fresh)
            IN  [st |-> out.st, heap |-> out.heap,
                 val |-> IF out.st = "return" THEN fresh ELSE out.val]
    IN  IF g.st = "throw" THEN [st |-> "throw", val |-> g.val, heap |-> h]
        ELSE IF IsArray(h, bucket)
        THEN IF flat
             THEN Stored(Items(h, bucket) \o Items(h, value))
             ELSE [st |-> "return", val |-> bucket, heap |-> ArrayPush(h, bucket, value)]
        ELSE IF IsNil(bucket)
        THEN Stored(IF flat THEN Items(h, value) ELSE <<value>>)
        ELSE Stored(IF flat THEN <<bucket>> \o Items(h, value) ELSE <<bucket, value>>)

\* a variant that does not store the concatenated bucket
putIntoBucket_noWriteBack(h, collection, key, value, flattenArray) ==
    LET g == getValueByPath(h, collection, key, Undefined)
        bucket == g.val
        flat == IsArray(h, value) /\ flattenArray
        fresh == Ref(Len(h) + 1)
        Stored(items) ==
            LET out == setValueByPath(Append(h, ArrayOf(items)), collection, key, fresh)
            IN  [st |-> out.st, heap |-> out.heap,
                 val |-> IF out.st = "return" THEN fresh ELSE out.val]
    IN  IF g.st = "throw" THEN [st |-> "throw", val |-> g.val, heap |-> h]
        ELSE IF IsArray(h, bucket)
        THEN IF flat
             THEN [st |-> "return", val |-> fresh,
                   heap |-> Append(h, ArrayOf(Items(h, bucket) \o Items(h, value)))]
             ELSE [st |-> "return", val |-> bucket, heap |-> ArrayPush(h, bucket, value)]
        ELSE IF IsNil(bucket)
        THEN Stored(IF flat THEN Items(h, value) ELSE <<value>>)
        ELSE Stored(IF flat THEN <<bucket>> \o Items(h, value) ELSE <<bucket, value>>)

\* a variant that stores the value array itself where the code stores
\* value.concat()
putIntoBucket_noCopy(h, collection, key, value, flattenArray) ==
    LET g == getValueByPath(h, collection, key, Undefined)
        bucket == g.val
        flat == IsArray(h, value) /\ flattenArray
        fresh == Ref(Len(h) + 1)
        Stored(items) ==
            LET out == setValueByPath(Append(h, ArrayOf(items)), collection, key, fresh)
            IN  [st |-> out.st, heap |-> out.heap,
                 val |-> IF out.st = "return" THEN fresh ELSE out.val]
    IN  IF g.st = "throw" THEN [st |-> "throw", val |-> g.val, heap |-> h]
        ELSE IF IsArray(h, bucket)
        THEN IF flat
             THEN Stored(Items(h, bucket) \o Items(h, value))
             ELSE [st |-> "return", val |-> bucket, heap |-> ArrayPush(h, bucket, value)]
        ELSE IF IsNil(bucket)
        THEN IF flat
             THEN LET out == setValueByPath(h, collection, key, value)
                  IN  [st |-> out.st, heap |-> out.heap,
                       val |-> IF out.st = "return" THEN value ELSE out.val]
             ELSE Stored(<<value>>)
        ELSE Stored(IF flat THEN <<bucket>> \o Items(h, value) ELSE <<bucket, value>>)

\* the outcome (the bucket returned, or the error raised) and the heap
\* the call leaves
putIntoBucket(h, collection, key, value, flattenArray) ==
    LET g == getValueByPath(h, collection, key, Undefined)
        bucket == g.val
        \* _.isArray(value) && flattenArray
        flat == IsArray(h, value) /\ flattenArray
        fresh == Ref(Len(h) + 1)
        \* bucket = <a new array>; U.setValueByPath(collection, key, bucket)
        Stored(items) ==
            LET out == setValueByPath(Append(h, ArrayOf(items)), collection, key, fresh)
            IN  [st |-> out.st, heap |-> out.heap,
                 val |-> IF out.st = "return" THEN fresh ELSE out.val]
    IN  IF g.st = "throw" THEN [st |-> "throw", val |-> g.val, heap |-> h]
        ELSE IF IsArray(h, bucket)
        THEN IF flat
             THEN Stored(Items(h, bucket) \o Items(h, value))
             ELSE [st |-> "return", val |-> bucket, heap |-> ArrayPush(h, bucket, value)]
        ELSE IF IsNil(bucket)
        THEN Stored(IF flat THEN Items(h, value) ELSE <<value>>)
        ELSE Stored(IF flat THEN <<bucket>> \o Items(h, value) ELSE <<bucket, value>>)

\* ------------------------------------------------------------------ state
VARIABLES
    heap,      \* the objects and arrays of the mapping under test
    pre,       \* the heap as it was when the last setValueByPath call began
    call,      \* the last accessor call: its arguments and its outcome
    lastSet,   \* the last setValueByPath call
    start,     \* the heap the behaviour started with
    bucketKey, \* putIntoBucket scenario: the path the buckets are put at
    otherKey,  \* putIntoBucket scenario: the path of the calls in between
    blog,      \* putIntoBucket scenario: the calls made so far, in order
    fn,                     \* the orchestrator function that was called
    arrayOfPromiseFactory,  \* what each factory does when it is invoked
    predicate,              \* ifAnyPromise_'s predicate, when one is given
    obj,                    \* eachAsync_'s collection
    iterator,               \* what eachAsync_'s iterator does on each call
    calls,                  \* every factory/iterator invocation so far, in order
    ready,                  \* eachPromise_: the promises chained onto `ready`
    accumulator,            \* eachPromise_: the results pushed so far
    r,                      \* eachAsync_: the results collected so far
    i,                      \* the loop index of the async functions
    pc,                     \* where the async function body stands
    outer,                  \* the promise the call returned
    wait,      \* waitUntil_: its arguments, locals, promise and event log
    cmd,       \* runCmdLive_: its handlers, `e`, promise and the child's events
    strCall    \* the string helpers: the function called, its arguments, its result

bucketVars == <<start, bucketKey, otherKey, blog>>
accVars  == <<heap, pre, call, lastSet, start, bucketKey, otherKey, blog>>
orchIn   == <<fn, arrayOfPromiseFactory, predicate, obj, iterator>>
orchVars == <<fn, arrayOfPromiseFactory, predicate, obj, iterator,
              calls, ready, accumulator, r, i, pc, outer>>
utilVars == <<wait, cmd, strCall>>
vars     == <<heap, pre, call, lastSet, start, bucketKey, otherKey, blog,
              fn, arrayOfPromiseFactory, predicate, obj, iterator,
              calls, ready, accumulator, r, i, pc, outer, wait, cmd, strCall>>

\* sequences over S of length at most n
SeqsUpTo(S, n) == UNION {[1..k -> S] : k \in 0..n}

Paths == {StrPath(s) : s \in SeqsUpTo(Chars, MaxPathLen)}
         \cup {ArrPath(ss) : ss \in SeqsUpTo(SegKeys, MaxSegs)}

\* the collection argument: the mapping (cell 1), an absent one, a scalar
Colls == {Ref(1), Null, Num(1)}
Defaults == {Undefined, Num(1)}
ScalarArgs == {Undefined, Null, Num(0), Str(1)}

\* {}
Mapping0 == <<EmptyObj>>

\* { a: { a: 0, '': false, '0': '', aa: undefined }, '': 1, '0': ['a', 1], aa: null }
Mapping1 ==
    << [kind |-> "obj", len |-> 0,
        props |-> (<<"a">> :> Ref(2)) @@ (<<>> :> Num(1)) @@ (<<"0">> :> Ref(3))
                  @@ (<<"a", "a">> :> Null)],
       [kind |-> "obj", len |-> 0,
        props |-> (<<"a">> :> Num(0)) @@ (<<>> :> False) @@ (<<"0">> :> Str(0))
                  @@ (<<"a", "a">> :> Undefined)],
       [kind |-> "arr", len |-> 2,
        props |-> (<<"0">> :> Str(1)) @@ (<<"1">> :> Num(1))] >>

NoCall == [op |-> "none", coll |-> Undefined, path |-> StrPath(<<>>),
           arg |-> Undefined, st |-> "return", res |-> Undefined]

Pending      == [st |-> "pending", val |-> Undefined, items |-> <<>>]
Fulfilled(v) == [st |-> "fulfilled", val |-> v, items |-> <<>>]
Rejected(e)  == [st |-> "rejected", val |-> e, items |-> <<>>]
\* fulfilled with an array holding xs
ArrayValue == [t |-> "array", n |-> 0]
FulfilledWith(xs) == [st |-> "fulfilled", val |-> ArrayValue, items |-> xs]

NoObj == [kind |-> "other", keys |-> <<>>, vals |-> <<>>]

OrchIdle ==
    /\ fn = "none"
    /\ arrayOfPromiseFactory = <<>>
    /\ predicate = [given |-> FALSE, yes |-> {}]
    /\ obj = NoObj
    /\ iterator = <<>>
    /\ calls = <<>>
    /\ ready = <<>>
    /\ accumulator = <<>>
    /\ r = <<>>
    /\ i = 0
    /\ pc = "done"
    /\ outer = Pending

BucketIdle ==
    /\ bucketKey = StrPath(<<>>)
    /\ otherKey = StrPath(<<>>)
    /\ blog = <<>>

\* no call of waitUntil_, of runCmdLive_ or of a string helper
NoWait == [pc |-> "none", checkInterval |-> 0, maxRounds |-> 0, counter |-> 0,
           result |-> Undefined, outer |-> Pending, log |-> <<>>]
NoCmd  == [pc |-> "none", onStdOut |-> FALSE, onStdErr |-> FALSE,
           e |-> Undefined, outer |-> Pending, events |-> <<>>,
           stdout |-> 0, stderr |-> 0]
NoStr  == [fn |-> "none", base |-> <<>>, parts |-> <<>>, str |-> <<>>,
           right |-> <<>>, done |-> FALSE, out |-> <<>>]

WaitIdle == wait = NoWait
CmdIdle  == cmd = NoCmd
StrIdle  == strCall = NoStr
UtilIdle == WaitIdle /\ CmdIdle /\ StrIdle

AccInit ==
    /\ OrchIdle
    /\ UtilIdle
    /\ BucketIdle
    /\ heap \in {Mapping0, Mapping1}
    /\ start = heap
    /\ pre = heap
    /\ call = NoCall
    /\ lastSet = NoCall

\* A read leaves the heap as it is, so a read after a read reaches nothing a
\* first read does not: each behaviour is [a set,] then one read.
GetValueByPath ==
    /\ call.op \in {"none", "set"}
    /\ \E c \in Colls, p \in Paths, d \in Defaults :
        LET out == getValueByPath(heap, c, p, d)
        IN  /\ call' = [op |-> "get", coll |-> c, path |-> p, arg |-> d,
                        st |-> out.st, res |-> out.val]
            /\ UNCHANGED <<heap, pre, lastSet, bucketVars, orchVars, utilVars>>

HasKeyByPath ==
    /\ call.op \in {"none", "set"}
    /\ \E c \in Colls, p \in Paths :
        LET out == hasKeyByPath(heap, c, p)
        IN  /\ call' = [op |-> "has", coll |-> c, path |-> p, arg |-> Undefined,
                        st |-> out.st, res |-> out.val]
            /\ UNCHANGED <<heap, pre, lastSet, bucketVars, orchVars, utilVars>>

\* the value is a scalar or an object the caller has just built ({})
SetValueByPath ==
    /\ call.op = "none"
    /\ \E c \in Colls, p \in Paths, v \in ScalarArgs \cup {Ref(Len(heap) + 1)} :
        LET h0 == IF v.t = "ref" THEN Append(heap, EmptyObj) ELSE heap
            out == setValueByPath(h0, c, p, v)
        IN  /\ pre' = h0
            /\ heap' = out.heap
            /\ call' = [op |-> "set", coll |-> c, path |-> p, arg |-> v,
                        st |-> out.st, res |-> out.val]
            /\ lastSet' = call'
    /\ UNCHANGED <<bucketVars, orchVars, utilVars>>

AccNext == GetValueByPath \/ HasKeyByPath \/ SetValueByPath

AccIdle ==
    /\ BucketIdle
    /\ heap = Mapping0
    /\ start = Mapping0
    /\ pre = Mapping0
    /\ call = NoCall
    /\ lastSet = NoCall

SpecAccessor == AccInit /\ [][AccNext]_vars

\* --------------------------------------------------- putIntoBucket scenarios
\* The paths of a scenario. On Mapping1: 'aa' holds null, 'a.a' holds 0,
\* ['0'] holds an array, '.' passes through the number under '', and []
\* names the mapping itself. On Mapping0 all but [] hold nothing.
BucketPaths ==
    {StrPath(<<"a", "a">>), StrPath(<<"a", ".", "a">>), ArrPath(<< <<"0">> >>),
     StrPath(<<".">>), ArrPath(<<>>)}

\* the value argument: a scalar (0), an array the caller has just built
\* ([1, 2]), or the bucket the last returned putIntoBucket call gave back
ValueKinds == {"scalar", "array", "bucket"}

\* the putIntoBucket calls of a scenario: scalars and new arrays are put at
\* bucketKey, a bucket that was returned is put at otherKey
PutCalls ==
    {[key |-> bucketKey, kind |-> k, flattenArray |-> f] :
        k \in {"scalar", "array"}, f \in BOOLEAN}
    \cup {[key |-> otherKey, kind |-> "bucket", flattenArray |-> f] : f \in BOOLEAN}

\* the bucket the most recent returned putIntoBucket call gave back
HasLastBucket == \E j \in DOMAIN blog : blog[j].op = "put" /\ blog[j].st = "return"

LastBucket ==
    LET js == {j \in DOMAIN blog : blog[j].op = "put" /\ blog[j].st = "return"}
    IN  blog[CHOOSE j \in js : \A k \in js : k <= j].res

\* the heap once the caller has built the value, and the value
ArgHeap(kind) ==
    IF kind = "array" THEN Append(heap, ArrayOf(<<Num(1), Num(2)>>)) ELSE heap

ArgValue(kind) ==
    CASE kind = "scalar" -> Num(0)
      [] kind = "array"  -> Ref(Len(heap) + 1)
      [] OTHER           -> LastBucket

BucketInit ==
    /\ OrchIdle
    /\ UtilIdle
    /\ heap \in {Mapping0, Mapping1}
    /\ start = heap
    /\ pre = heap
    /\ call = NoCall
    /\ lastSet = NoCall
    /\ bucketKey \in BucketPaths
    /\ otherKey \in BucketPaths
    /\ blog = <<>>

PutIntoBucket ==
    /\ Len(blog) < MaxPuts
    /\ \E c \in PutCalls :
        /\ c.kind = "bucket" => HasLastBucket
        /\ LET value == ArgValue(c.kind)
               out == putIntoBucket(ArgHeap(c.kind), Ref(1), c.key, value, c.flattenArray)
           IN  /\ pre' = ArgHeap(c.kind)
               /\ heap' = out.heap
               /\ call' = [op |-> "put", coll |-> Ref(1), path |-> c.key, arg |-> value,
                           st |-> out.st, res |-> out.val]
               /\ blog' = Append(blog, [op |-> "put", path |-> c.key, arg |-> value,
                                        flatten |-> c.flattenArray,
                                        st |-> out.st, res |-> out.val])
    /\ UNCHANGED <<lastSet, start, bucketKey, otherKey, orchVars, utilVars>>

\* a setValueByPath call between the putIntoBucket calls, on the other path
SetBetweenPuts ==
    /\ Len(blog) < MaxPuts
    /\ \E kind \in ValueKinds \ {"array"} :
        /\ kind = "bucket" => HasLastBucket
        /\ LET value == ArgValue(kind)
               out == setValueByPath(heap, Ref(1), otherKey, value)
           IN  /\ pre' = heap
               /\ heap' = out.heap
               /\ call' = [op |-> "set", coll |-> Ref(1), path |-> otherKey,
                           arg |-> value, st |-> out.st, res |-> out.val]
               /\ lastSet' = call'
               /\ blog' = Append(blog, [op |-> "set", path |-> otherKey, arg |-> value,
                                        flatten |-> FALSE,
                                        st |-> out.st, res |-> out.val])
    /\ UNCHANGED <<start, bucketKey, otherKey, orchVars, utilVars>>

BucketNext == PutIntoBucket \/ SetBetweenPuts

SpecBucket == BucketInit /\ [][BucketNext]_vars

\* ---------------------------------------------------- sequential orchestrator
\* results a factory or an iterator call can produce: one falsy, two truthy
FVals == {Num(0), Num(1), Num(2)}

\* what a factory (an iterator call) does: it returns a promise that is
\* later fulfilled or rejected, returns a plain value, or throws
Behaviours == [kind : {"resolve", "value"}, val : FVals]
              \cup [kind : {"reject", "throw"}, val : {Undefined}]

\* a predicate is the set of results it returns true for
Predicates == [given : {TRUE}, yes : SUBSET FVals]
              \cup {[given |-> FALSE, yes |-> {}]}

\* the error the k-th factory (iterator call) raises: each its own
ErrorOf(k) == Err(k)

\* the record of invoking factory/iterator call number k (0-based) with
\* argument arg (and key key), given what it does
Invoke(b, k, arg, key) ==
    [idx |-> k, arg |-> arg, key |-> key,
     st  |-> CASE b.kind = "throw" -> "thrown"
               [] b.kind = "value" -> "returned"
               [] OTHER            -> "pending",
     val |-> CASE b.kind = "throw" -> ErrorOf(k)
               [] b.kind = "value" -> b.val
               [] OTHER            -> Undefined]

\* the promise a pending call returned settles
Settle(b, c) ==
    [c EXCEPT !.st  = IF b.kind = "resolve" THEN "fulfilled" ELSE "rejected",
              !.val = IF b.kind = "resolve" THEN b.val ELSE ErrorOf(c.idx)]

Invoked(k) == \E j \in DOMAIN calls : calls[j].idx = k
CallOf(k)  == calls[CHOOSE j \in DOMAIN calls : calls[j].idx = k]
SetCall(k, c) ==
    [j \in DOMAIN calls |-> IF calls[j].idx = k THEN c ELSE calls[j]]

\* ---- eachPromise_
\* The call builds the whole chain synchronously and returns its last
\* promise; ready[2k+1] is ready.then(promiseFactory) of factory k and
\* ready[2k+2] the .then(value => { accumulator.push(value); }) after it.
\* The promise a link is chained onto: Promise.resolve(null) for the first.
\* a chain that is never advanced: every factory chained onto the first promise
ReadyBefore_first(j) == IF j % 2 = 1 THEN Fulfilled(Null) ELSE ready[j - 1]

ReadyBefore(j) == IF j = 1 THEN Fulfilled(Null) ELSE ready[j - 1]

\* accumulator.unshift(value)
Push_front(acc, value) == <<value>> \o acc

\* accumulator.push(value)
Push(acc, value) == Append(acc, value)

\* a link with a rejection handler that swallows the failure
PassOn_swallowed(prev) == Fulfilled(Undefined)

\* what a .then(onFulfilled) link becomes when the promise before it is
\* rejected: rejected with the same reason
PassOn(prev) == Rejected(prev.val)

EachPromiseInit ==
    /\ AccIdle
    /\ UtilIdle
    /\ fn = "eachPromise_"
    /\ arrayOfPromiseFactory \in SeqsUpTo(Behaviours, MaxFactories)
    /\ predicate = [given |-> FALSE, yes |-> {}]
    /\ obj = NoObj
    /\ iterator = <<>>
    /\ calls = <<>>
    /\ ready = [j \in 1..(2 * Len(arrayOfPromiseFactory)) |-> Pending]
    /\ accumulator = <<>>
    /\ r = <<>>
    /\ i = 0
    /\ pc = "chained"
    /\ outer = Pending

\* ready.then(promiseFactory): the promise before it is fulfilled, so the
\* factory is called with that promise's value
EachPromise_InvokeFactory ==
    /\ fn = "eachPromise_"
    /\ \E k \in 0..(Len(arrayOfPromiseFactory) - 1) :
        /\ ReadyBefore(2 * k + 1).st = "fulfilled"
        /\ ready[2 * k + 1].st = "pending"
        /\ ~Invoked(k)
        /\ LET b == arrayOfPromiseFactory[k + 1]
               c == Invoke(b, k, ReadyBefore(2 * k + 1).val, Undefined)
           IN  /\ calls' = Append(calls, c)
               /\ ready' = [ready EXCEPT ![2 * k + 1] =
                              CASE c.st = "thrown"   -> Rejected(c.val)
                                [] c.st = "returned" -> Fulfilled(c.val)
                                [] OTHER             -> @]
    /\ UNCHANGED <<accVars, utilVars, orchIn, accumulator, r, i, pc, outer>>

\* the promise a factory returned settles, and the link adopts its state
EachPromise_FactorySettles ==
    /\ fn = "eachPromise_"
    /\ \E k \in 0..(Len(arrayOfPromiseFactory) - 1) :
        /\ Invoked(k)
        /\ CallOf(k).st = "pending"
        /\ LET c == Settle(arrayOfPromiseFactory[k + 1], CallOf(k))
           IN  /\ calls' = SetCall(k, c)
               /\ ready' = [ready EXCEPT ![2 * k + 1] =
                              IF c.st = "fulfilled" THEN Fulfilled(c.val)
                              ELSE Rejected(c.val)]
    /\ UNCHANGED <<accVars, utilVars, orchIn, accumulator, r, i, pc, outer>>

\* .then(value => { accumulator.push(value); }): fulfilled with undefined
EachPromise_Push ==
    /\ fn = "eachPromise_"
    /\ \E k \in 0..(Len(arrayOfPromiseFactory) - 1) :
        /\ ready[2 * k + 1].st = "fulfilled"
        /\ ready[2 * k + 2].st = "pending"
        /\ accumulator' = Push(accumulator, ready[2 * k + 1].val)
        /\ ready' = [ready EXCEPT ![2 * k + 2] = Fulfilled(Undefined)]
    /\ UNCHANGED <<accVars, utilVars, orchIn, calls, r, i, pc, outer>>

\* no .then of the chain has a rejection handler: a rejection passes on
EachPromise_PassRejection ==
    /\ fn = "eachPromise_"
    /\ \E j \in DOMAIN ready :
        /\ ReadyBefore(j).st = "rejected"
        /\ ready[j].st = "pending"
        /\ ready' = [ready EXCEPT ![j] = PassOn(ReadyBefore(j))]
    /\ UNCHANGED <<accVars, utilVars, orchIn, calls, accumulator, r, i, pc, outer>>

\* return ready.then(() => accumulator)
EachPromise_Settle ==
    /\ fn = "eachPromise_"
    /\ outer.st = "pending"
    /\ LET last == ReadyBefore(Len(ready) + 1)
       IN  /\ last.st # "pending"
           /\ outer' = IF last.st = "fulfilled" THEN FulfilledWith(accumulator)
                       ELSE PassOn(last)
    /\ pc' = "done"
    /\ UNCHANGED <<accVars, utilVars, orchIn, calls, ready, accumulator, r, i>>


\* ---- async functions (ifAnyPromise_, eachAsync_)
\* a call that throws inside the async body, or an awaited promise that is
\* rejected, rejects the promise the async function returned, with the
\* error as it is
AsyncFailure_wrapped(c) == Rejected(TypeError)

AsyncFailure(c) == Rejected(c.val)

\* ---- ifAnyPromise_
\* (predicate && predicate(result)) || result
Matches(pr, result) == (pr.given /\ result \in pr.yes) \/ Truthy(result)

IfAnyInit ==
    /\ AccIdle
    /\ UtilIdle
    /\ fn = "ifAnyPromise_"
    /\ arrayOfPromiseFactory \in SeqsUpTo(Behaviours, MaxFactories)
    /\ predicate \in Predicates
    /\ obj = NoObj
    /\ iterator = <<>>
    /\ calls = <<>>
    /\ ready = <<>>
    /\ accumulator = <<>>
    /\ r = <<>>
    /\ i = 0
    /\ pc = "loop"
    /\ outer = Pending

\* arrayOfPromiseFactory[i](): a throw rejects the async function's promise
IfAny_InvokeFactory ==
    /\ fn = "ifAnyPromise_"
    /\ pc = "loop"
    /\ i < Len(arrayOfPromiseFactory)
    /\ LET c == Invoke(arrayOfPromiseFactory[i + 1], i, Undefined, Undefined)
       IN  /\ calls' = Append(calls, c)
           /\ IF c.st = "thrown"
              THEN outer' = AsyncFailure(c) /\ pc' = "done"
              ELSE outer' = outer /\ pc' = "await"
    /\ UNCHANGED <<accVars, utilVars, orchIn, ready, accumulator, r, i>>

IfAny_FactorySettles ==
    /\ fn = "ifAnyPromise_"
    /\ \E k \in 0..(Len(arrayOfPromiseFactory) - 1) :
        /\ Invoked(k)
        /\ CallOf(k).st = "pending"
        /\ calls' = SetCall(k, Settle(arrayOfPromiseFactory[k + 1], CallOf(k)))
    /\ UNCHANGED <<accVars, utilVars, orchIn, ready, accumulator, r, i, pc, outer>>

\* the await resumes: let result = ...; if (...) return Promise.resolve([i, result])
IfAny_Resume ==
    /\ fn = "ifAnyPromise_"
    /\ pc = "await"
    /\ CallOf(i).st # "pending"
    /\ LET c == CallOf(i)
       IN  CASE c.st = "rejected" ->
                  outer' = AsyncFailure(c) /\ pc' = "done" /\ i' = i
             [] c.st # "rejected" /\ Matches(predicate, c.val) ->
                  outer' = FulfilledWith(<<Num(i), c.val>>) /\ pc' = "done" /\ i' = i
             [] OTHER ->
                  outer' = outer /\ pc' = "loop" /\ i' = i + 1
    /\ UNCHANGED <<accVars, utilVars, orchIn, calls, ready, accumulator, r>>

\* return undefined
IfAny_NoneFound ==
    /\ fn = "ifAnyPromise_"
    /\ pc = "loop"
    /\ i >= Len(arrayOfPromiseFactory)
    /\ outer' = Fulfilled(Undefined)
    /\ pc' = "done"
    /\ UNCHANGED <<accVars, utilVars, orchIn, calls, ready, accumulator, r, i>>

\* ---- eachAsync_
\* Promise.reject('Invalid argument!') rejects with that string
InvalidArgument == [t |-> "string", n |-> 0]

\* an array [1, .., n], a plain object { a: 1, aa: 2, .. } of n keys (in
\* for-in order), or a value that is neither (an instance of a class, say)
\* with n own keys: with none it is NoObj
Collections ==
    {[kind |-> k, keys |-> [j \in 1..n |-> IF k = "arr" THEN Num(j - 1) ELSE Str(j)],
      vals |-> [j \in 1..n |-> Num(j)]] :
        k \in {"arr", "obj", "other"}, n \in 0..MaxFactories}

\* if (_.isArray(obj)) .. else if (_.isPlainObject(obj)) .. else ..
Branch_anyObject(o) ==
    IF o.kind = "arr" THEN "array" ELSE "object"

Branch(o) ==
    IF o.kind = "arr" THEN "array"
    ELSE IF o.kind = "obj" THEN "object"
    ELSE "invalid"

\* the result under construction is a list of [key, val] entries in
\* insertion order. r.push(x) adds x at index r.length; r[k] = x replaces
\* the entry of key k or adds one
Store_byPosition(rr, o, key, value) ==
    Append(rr, [key |-> Num(Len(rr)), val |-> value])

Store(rr, o, key, value) ==
    IF Branch(o) = "array"
    THEN Append(rr, [key |-> Num(Len(rr)), val |-> value])
    ELSE IF \E j \in DOMAIN rr : rr[j].key = key
         THEN [j \in DOMAIN rr |->
                  IF rr[j].key = key THEN [key |-> key, val |-> value] ELSE rr[j]]
         ELSE Append(rr, [key |-> key, val |-> value])

\* what eachAsync_ resolves with: an array or a plain object
ObjectValue == [t |-> "object", n |-> 0]

ResultOf(o, rr) ==
    [st |-> "fulfilled",
     val |-> IF Branch(o) = "array" THEN ArrayValue ELSE ObjectValue,
     items |-> rr]

EachAsyncInit ==
    /\ AccIdle
    /\ UtilIdle
    /\ fn = "eachAsync_"
    /\ arrayOfPromiseFactory = <<>>
    /\ predicate = [given |-> FALSE, yes |-> {}]
    /\ obj \in Collections
    /\ iterator \in [1..Len(obj.vals) -> Behaviours]
    /\ calls = <<>>
    /\ ready = <<>>
    /\ accumulator = <<>>
    /\ r = <<>>
    /\ i = 0
    /\ pc = "loop"
    /\ outer = Pending

\* iterator(obj[i], i, obj) / iterator(obj[k], k, obj)
EachAsync_InvokeIterator ==
    /\ fn = "eachAsync_"
    /\ pc = "loop"
    /\ Branch(obj) \in {"array", "object"}
    /\ i < Len(obj.vals)
    /\ LET c == Invoke(iterator[i + 1], i, obj.vals[i + 1], obj.keys[i + 1])
       IN  /\ calls' = Append(calls, c)
           /\ IF c.st = "thrown"
              THEN outer' = AsyncFailure(c) /\ pc' = "done"
              ELSE outer' = outer /\ pc' = "await"
    /\ UNCHANGED <<accVars, utilVars, orchIn, ready, accumulator, r, i>>

EachAsync_IteratorSettles ==
    /\ fn = "eachAsync_"
    /\ \E k \in 0..(Len(iterator) - 1) :
        /\ Invoked(k)
        /\ CallOf(k).st = "pending"
        /\ calls' = SetCall(k, Settle(iterator[k + 1], CallOf(k)))
    /\ UNCHANGED <<accVars, utilVars, orchIn, ready, accumulator, r, i, pc, outer>>

\* r.push(await ...) / r[k] = await ...
EachAsync_Resume ==
    /\ fn = "eachAsync_"
    /\ pc = "await"
    /\ CallOf(i).st # "pending"
    /\ LET c == CallOf(i)
       IN  IF c.st = "rejected"
           THEN outer' = AsyncFailure(c) /\ pc' = "done" /\ i' = i /\ r' = r
           ELSE /\ outer' = outer /\ pc' = "loop" /\ i' = i + 1
                /\ r' = Store(r, obj, c.key, c.val)
    /\ UNCHANGED <<accVars, utilVars, orchIn, calls, ready, accumulator>>

\* return r
EachAsync_Return ==
    /\ fn = "eachAsync_"
    /\ pc = "loop"
    /\ Branch(obj) \in {"array", "object"}
    /\ i >= Len(obj.vals)
    /\ outer' = ResultOf(obj, r)
    /\ pc' = "done"
    /\ UNCHANGED <<accVars, utilVars, orchIn, calls, ready, accumulator, r, i>>

\* return Promise.reject('Invalid argument!')
EachAsync_Invalid ==
    /\ fn = "eachAsync_"
    /\ pc = "loop"
    /\ Branch(obj) = "invalid"
    /\ outer' = Rejected(InvalidArgument)
    /\ pc' = "done"
    /\ UNCHANGED <<accVars, utilVars, orchIn, calls, ready, accumulator, r, i>>

OrchInit == EachPromiseInit \/ IfAnyInit \/ EachAsyncInit

OrchNext ==
    \/ EachPromise_InvokeFactory
    \/ EachPromise_FactorySettles
    \/ EachPromise_Push
    \/ EachPromise_PassRejection
    \/ EachPromise_Settle
    \/ IfAny_InvokeFactory
    \/ IfAny_FactorySettles
    \/ IfAny_Resume
    \/ IfAny_NoneFound
    \/ EachAsync_InvokeIterator
    \/ EachAsync_IteratorSettles
    \/ EachAsync_Resume
    \/ EachAsync_Return
    \/ EachAsync_Invalid

SpecOrch == OrchInit /\ [][OrchNext]_vars

\* --------------------------------------------------------------- waitUntil_
\* waitUntil_(checker, checkInterval, maxRounds) is an async function. The
\* checker's result is chosen when an invocation settles: a falsy or a truthy
\* value, or a failure (a throw or a rejected promise). The log keeps every
\* invocation of the checker, every result, and every Promise.delay.

Intervals == {10, 1000}
CheckerResults == {False, Undefined, True, Num(1)}

Event(e, val) == [e |-> e, val |-> val]

\* a variant that stops on the value true only (result === true)
Stops_onlyTrue(result) == result = True

\* if (result) return result;   and   if (result) break;
Stops(result) == Truthy(result)

\* while (++counter < maxRounds), with counter the value before the increment
Again(counter, maxRounds) == counter + 1 < maxRounds

WaitInit ==
    /\ AccIdle
    /\ OrchIdle
    /\ CmdIdle
    /\ StrIdle
    /\ \E ms \in Intervals, n \in 0..MaxRounds :
          wait = [NoWait EXCEPT !.pc = "start", !.checkInterval = ms,
                                !.maxRounds = n]

\* the call runs up to its first await: let result = await checker()
WaitUntil ==
    /\ wait.pc = "start"
    /\ wait' = [wait EXCEPT !.pc = "first",
                            !.log = Append(@, Event("call", Undefined))]
    /\ UNCHANGED <<accVars, orchVars, cmd, strCall>>

\* checker() throws, or the promise it returned is rejected: the await
\* raises and the promise of the async function is rejected
CheckerFails ==
    /\ wait.pc \in {"first", "round"}
    /\ wait' = [wait EXCEPT !.pc = "done",
                            !.outer = Rejected(Err(1)),
                            !.log = Append(@, Event("fail", Err(1)))]
    /\ UNCHANGED <<accVars, orchVars, cmd, strCall>>

\* the first check settles: return the result, or set counter = 0, enter
\* the loop and start the first delay
FirstCheck ==
    /\ wait.pc = "first"
    /\ \E v \in CheckerResults :
        wait' = IF Stops(v)
                THEN [wait EXCEPT !.pc = "done", !.result = v,
                                  !.outer = Fulfilled(v),
                                  !.log = Append(@, Event("result", v))]
                ELSE [wait EXCEPT !.pc = "delay", !.result = v, !.counter = 0,
                                  !.log = @ \o <<Event("result", v),
                                                 Event("delay", Num(wait.checkInterval))>>]
    /\ UNCHANGED <<accVars, orchVars, cmd, strCall>>

\* Promise.delay(checkInterval) is fulfilled: result = await checker()
DelayElapses ==
    /\ wait.pc = "delay"
    /\ wait' = [wait EXCEPT !.pc = "round",
                            !.log = @ \o <<Event("elapsed", Undefined),
                                           Event("call", Undefined)>>]
    /\ UNCHANGED <<accVars, orchVars, cmd, strCall>>

\* a check in the loop settles: break on a truthy result, go round again
\* while ++counter < maxRounds, return the result otherwise
RoundCheck ==
    /\ wait.pc = "round"
    /\ \E v \in CheckerResults :
        wait' = IF Stops(v)
                THEN [wait EXCEPT !.pc = "done", !.result = v,
                                  !.outer = Fulfilled(v),
                                  !.log = Append(@, Event("result", v))]
                ELSE IF Again(wait.counter, wait.maxRounds)
                THEN [wait EXCEPT !.pc = "delay", !.result = v,
                                  !.counter = @ + 1,
                                  !.log = @ \o <<Event("result", v),
                                                 Event("delay", Num(wait.checkInterval))>>]
                ELSE [wait EXCEPT !.pc = "done", !.result = v,
                                  !.counter = @ + 1,
                                  !.outer = Fulfilled(v),
                                  !.log = Append(@, Event("result", v))]
    /\ UNCHANGED <<accVars, orchVars, cmd, strCall>>

WaitNext == WaitUntil \/ CheckerFails \/ FirstCheck \/ DelayElapses \/ RoundCheck

SpecWait == WaitInit /\ [][WaitNext]_vars

\* every checker invocation settles and every delay elapses
SpecWaitLive == SpecWait /\ WF_vars(WaitNext)

\* -------------------------------------------------------------- runCmdLive_
\* runCmdLive_(cmd, args, onStdOut, onStdErr) spawns a child process inside
\* the executor of the promise it returns and listens to the child's events.
\* What the child emits, and in which order, is chosen freely: 'data' on
\* stdout and stderr, 'error' with an error, 'close' with an exit code.

ExitCodes == {Num(0), Num(1)}
Errors == {Err(1), Err(2)}
\* what childProcess.spawn throws for an argument it does not accept
SpawnError == Err(3)

\* resolve and reject do nothing on a promise that is settled
SettleOnce(promise, outcome) ==
    IF promise.st = "pending" THEN outcome ELSE promise

\* a variant that rejects as soon as the error is emitted
OnError_rejects(c, error) ==
    [c EXCEPT !.e = error, !.outer = SettleOnce(@, Rejected(error)),
              !.events = Append(@, Event("error", error))]

\* ps.on('error', (error) => { e = error; })
OnError(c, error) ==
    [c EXCEPT !.e = error, !.events = Append(@, Event("error", error))]

\* ps.on('close', (code) => e ? reject(e) : resolve(code))
OnClose(c, code) ==
    [c EXCEPT !.outer = SettleOnce(@, IF Truthy(c.e) THEN Rejected(c.e)
                                      ELSE Fulfilled(code)),
              !.events = Append(@, Event("close", code))]

CmdInit ==
    /\ AccIdle
    /\ OrchIdle
    /\ WaitIdle
    /\ StrIdle
    /\ \E o \in BOOLEAN, e \in BOOLEAN :
          cmd = [NoCmd EXCEPT !.pc = "start", !.onStdOut = o, !.onStdErr = e]

\* spawn returns the child and the listeners are registered
RunCmdLive ==
    /\ cmd.pc = "start"
    /\ cmd' = [cmd EXCEPT !.pc = "spawned"]
    /\ UNCHANGED <<accVars, orchVars, wait, strCall>>

\* spawn throws (an empty command, an argument of the wrong type): the
\* executor raises and the promise is rejected, with no child process
SpawnThrows ==
    /\ cmd.pc = "start"
    /\ cmd' = [cmd EXCEPT !.pc = "failed", !.outer = Rejected(SpawnError)]
    /\ UNCHANGED <<accVars, orchVars, wait, strCall>>

\* ps.stdout emits 'data': onStdOut is called when it was given
EmitStdout ==
    /\ cmd.pc = "spawned"
    /\ Len(cmd.events) < MaxEvents
    /\ cmd' = [cmd EXCEPT !.stdout = IF cmd.onStdOut THEN @ + 1 ELSE @,
                          !.events = Append(@, Event("stdout", Undefined))]
    /\ UNCHANGED <<accVars, orchVars, wait, strCall>>

\* ps.stderr emits 'data': onStdErr is called when it was given
EmitStderr ==
    /\ cmd.pc = "spawned"
    /\ Len(cmd.events) < MaxEvents
    /\ cmd' = [cmd EXCEPT !.stderr = IF cmd.onStdErr THEN @ + 1 ELSE @,
                          !.events = Append(@, Event("stderr", Undefined))]
    /\ UNCHANGED <<accVars, orchVars, wait, strCall>>

EmitError ==
    /\ cmd.pc = "spawned"
    /\ Len(cmd.events) < MaxEvents
    /\ \E error \in Errors : cmd' = OnError(cmd, error)
    /\ UNCHANGED <<accVars, orchVars, wait, strCall>>

EmitClose ==
    /\ cmd.pc = "spawned"
    /\ Len(cmd.events) < MaxEvents
    /\ \E code \in ExitCodes : cmd' = OnClose(cmd, code)
    /\ UNCHANGED <<accVars, orchVars, wait, strCall>>

CmdNext ==
    RunCmdLive \/ SpawnThrows \/ EmitStdout \/ EmitStderr \/ EmitError \/ EmitClose

SpecCmd == CmdInit /\ [][CmdNext]_vars

\* ----------------------------------------------------------- string helpers
\* A string is the sequence of its characters. urlJoin and
\* dropRightIfEndsWith are pure: the inputs are drawn when the call is made
\* and the action applies the function.

UrlChars == {"a", "/"}
Strings == SeqsUpTo(UrlChars, MaxStrLen)

\* _.trimStart(string, chars) and _.trimEnd(string, chars) for one character
RECURSIVE TrimStart(_, _)
TrimStart(string, ch) ==
    IF string # <<>> /\ Head(string) = ch THEN TrimStart(Tail(string), ch)
    ELSE string

RECURSIVE TrimEnd(_, _)
TrimEnd(string, ch) ==
    IF string # <<>> /\ string[Len(string)] = ch
    THEN TrimEnd(SubSeq(string, 1, Len(string) - 1), ch)
    ELSE string

\* _.trim(string, chars)
Trim(string, ch) == TrimEnd(TrimStart(string, ch), ch)

\* path && _.trimEnd(path, '/')
trimRightSlash(path) ==
    IF path = <<>> THEN path ELSE TrimEnd(path, "/")

\* (path && path[0] === '/') ? path
\*     : ((excludeEmpty && path === '') ? '' : '/' + path)
ensureLeftSlash(path, excludeEmpty) ==
    IF path # <<>> /\ path[1] = "/" THEN path
    ELSE IF excludeEmpty /\ path = <<>> THEN <<>>
    ELSE <<"/">> \o path

\* Array.prototype.map with p => _.trim(p, '/')
TrimAll(parts) == [j \in DOMAIN parts |-> Trim(parts[j], "/")]

\* Array.prototype.filter with p => p !== ''
NonEmpty(parts) == SelectSeq(parts, LAMBDA p : p # <<>>)

\* Array.prototype.join
RECURSIVE Join(_, _)
Join(parts, sep) ==
    IF parts = <<>> THEN <<>>
    ELSE IF Len(parts) = 1 THEN parts[1]
    ELSE parts[1] \o sep \o Join(Tail(parts), sep)

urlJoin(base, parts) ==
    IF Len(parts) = 0
    THEN IF base = <<>> \/ base = <<"/">> THEN <<"/">>
         ELSE trimRightSlash(base)
    ELSE trimRightSlash(base)
             \o ensureLeftSlash(Join(NonEmpty(TrimAll(parts)), <<"/">>), TRUE)

\* String.prototype.endsWith
EndsWith(string, right) ==
    /\ Len(right) <= Len(string)
    /\ SubSeq(string, Len(string) - Len(right) + 1, Len(string)) = right

\* String.prototype.slice(begin, end): a negative index counts from the
\* end of the string, and -0 is 0
Slice(string, begin, end) ==
    LET At(k) == IF k < 0 THEN (IF Len(string) + k < 0 THEN 0 ELSE Len(string) + k)
                 ELSE IF k > Len(string) THEN Len(string) ELSE k
    IN  SubSeq(string, At(begin) + 1, At(end))

dropRightIfEndsWith(string, right) ==
    IF EndsWith(string, right) THEN Slice(string, 0, 0 - Len(right))
    ELSE string

StrInit ==
    /\ AccIdle
    /\ OrchIdle
    /\ WaitIdle
    /\ CmdIdle
    /\ \/ \E base \in Strings, parts \in SeqsUpTo(Strings, MaxParts) :
             strCall = [NoStr EXCEPT !.fn = "urlJoin", !.base = base,
                                     !.parts = parts]
       \/ \E string \in Strings, right \in Strings :
             strCall = [NoStr EXCEPT !.fn = "dropRightIfEndsWith",
                                     !.str = string, !.right = right]

UrlJoin ==
    /\ strCall.fn = "urlJoin"
    /\ ~strCall.done
    /\ strCall' = [strCall EXCEPT !.done = TRUE,
                                  !.out = urlJoin(strCall.base, strCall.parts)]
    /\ UNCHANGED <<accVars, orchVars, wait, cmd>>

DropRightIfEndsWith ==
    /\ strCall.fn = "dropRightIfEndsWith"
    /\ ~strCall.done
    /\ strCall' = [strCall EXCEPT !.done = TRUE,
                                  !.out = dropRightIfEndsWith(strCall.str, strCall.right)]
    /\ UNCHANGED <<accVars, orchVars, wait, cmd>>

StrNext == UrlJoin \/ DropRightIfEndsWith

SpecStr == StrInit /\ [][StrNext]_vars

\* ----------------------------------------------------- accessor properties
\* the value reached by indexing segment after segment, absent (undefined)
\* as soon as there is nothing left to index
RECURSIVE Resolve(_, _, _)
Resolve(h, v, nodes) ==
    IF nodes = <<>> THEN v
    ELSE IF IsNil(v) THEN Undefined
    ELSE Resolve(h, Index(h, v, Head(nodes)), Tail(nodes))

\* C1: when walking the path's segments through the mapping ends on a
\* defined, non-null value v, getValueByPath returns v itself, falsy or
\* not, whatever the default is.
C1_FoundValueReturned ==
    call.op = "get" =>
        LET v == Resolve(heap, call.coll, Nodes(call.path))
        IN  ~IsNil(v) => call.st = "return" /\ call.res = v

\* a falsy value was found and returned although a truthy default was given
C1_Witness ==
    /\ call.op = "get"
    /\ call.coll = Ref(1)
    /\ Truthy(call.arg)
    /\ ~IsNil(Resolve(heap, call.coll, Nodes(call.path)))
    /\ ~Truthy(call.res)

\* a read of the path the last returned setValueByPath call wrote
ReadsBack ==
    /\ call.op \in {"get", "has"}
    /\ lastSet.op = "set"
    /\ lastSet.st = "return"
    /\ call.coll = lastSet.coll
    /\ call.path = lastSet.path
    /\ call.arg = Undefined

\* C2 as stated: after setValueByPath(m, p, v) has returned,
\* getValueByPath(m, p) returns v and hasKeyByPath(m, p) returns true, for
\* every m, p and v.
C2_RoundTripAnyValue ==
    ReadsBack =>
        /\ call.st = "return"
        /\ call.op = "get" => call.res = lastSet.arg
        /\ call.op = "has" => call.res = True

\* C2 amended: for a path of at least one segment, after a returned
\* setValueByPath(m, p, v), hasKeyByPath(m, p) returns true and
\* getValueByPath(m, p) returns v when v is not null or undefined, and
\* undefined (the absent default) when it is.
C2_RoundTrip ==
    (ReadsBack /\ Nodes(call.path) # <<>>) =>
        /\ call.st = "return"
        /\ call.op = "get" =>
              call.res = (IF IsNil(lastSet.arg) THEN Undefined ELSE lastSet.arg)
        /\ call.op = "has" => call.res = True

\* a value written two levels down, through a created intermediate, is read back
C2_Witness ==
    /\ ReadsBack
    /\ call.op = "get"
    /\ Len(Nodes(call.path)) > 1
    /\ Len(heap) > Len(pre)
    /\ ~IsNil(lastSet.arg)
    /\ call.res = lastSet.arg

\* C5: on a mapping that is not absent, getValueByPath and hasKeyByPath
\* return normally for every path; they never raise.
C5_ReadsNeverRaise ==
    (call.op \in {"get", "has"} /\ IsObject(call.coll)) => call.st = "return"

\* C14: getValueByPath with the empty string as path returns the default,
\* for every mapping, whatever keys the mapping has.
C14_EmptyPathGivesDefault ==
    (call.op = "get" /\ call.path = StrPath(<<>>)) =>
        call.st = "return" /\ call.res = call.arg

\* key is a member of v: an own property of an object or array, an index
\* within a string
Exists(h, v, key) ==
    \/ v.t = "ref" /\ HasProp(h, v, key)
    \/ v.t = "str" /\ IsIndexKey(key) /\ IndexOf(key) < v.n

\* some segment of nodes does not exist in the structure reached so far
RECURSIVE SegmentMissing(_, _, _)
SegmentMissing(h, v, nodes) ==
    /\ nodes # <<>>
    /\ \/ ~Exists(h, v, Head(nodes))
       \/ SegmentMissing(h, Index(h, v, Head(nodes)), Tail(nodes))

RECURSIVE Trail(_, _, _)
Trail(h, v, nodes) ==
    IF nodes = <<>> THEN <<>>
    ELSE <<v>> \o Trail(h, Index(h, v, Head(nodes)), Tail(nodes))

AllButLast(nodes) == SubSeq(nodes, 1, Len(nodes) - 1)

\* a returned setValueByPath call on a mapping where an intermediate
\* segment of the path was missing
SetThroughMissing ==
    /\ lastSet.op = "set"
    /\ lastSet.st = "return"
    /\ Len(Nodes(lastSet.path)) >= 2
    /\ SegmentMissing(pre, lastSet.coll, AllButLast(Nodes(lastSet.path)))

C17_InvalidCollectionRaises ==
    (lastSet.op = "set" /\ ~IsObject(lastSet.coll)) =>
        /\ lastSet.st = "throw"
        /\ lastSet.res = InvalidCollection
        /\ heap = pre

\* raised for a number as the collection, with a path of several segments
C17_Witness ==
    /\ lastSet.op = "set"
    /\ lastSet.coll = Num(1)
    /\ Len(Nodes(lastSet.path)) >= 2
    /\ lastSet.st = "throw"
    /\ heap = pre

\* the collection is there, walking all but the last segment reaches a
\* parent that is there, and the last segment is a member of that parent
MemberOfParent(h, collection, nodes) ==
    /\ ~IsNil(collection)
    /\ LET parent == Resolve(h, collection, AllButLast(nodes))
       IN  ~IsNil(parent) /\ Exists(h, parent, nodes[Len(nodes)])

\* C18: on a mapping or an absent one, for a path of at least one segment,
\* hasKeyByPath returns true when walking all but the last segment reaches
\* a parent that is there and the last segment is a member of that parent,
\* whatever value it holds, and returns false otherwise (the mapping or a
\* value on the way is absent, or the parent has no such member).
C18_HasIsMembership ==
    (/\ call.op = "has"
     /\ IsObject(call.coll) \/ IsNil(call.coll)
     /\ Nodes(call.path) # <<>>) =>
        /\ call.st = "return"
        /\ call.res = (IF MemberOfParent(heap, call.coll, Nodes(call.path))
                       THEN True ELSE False)

\* What does hold of hasKeyByPath: whenever it returns, it returns true
\* exactly when the last segment is a member of the parent reached.
Has_MembershipWhenItReturns ==
    (call.op = "has" /\ Nodes(call.path) # <<>> /\ call.st = "return") =>
        call.res = (IF MemberOfParent(heap, call.coll, Nodes(call.path))
                    THEN True ELSE False)

PutWithoutFlatten ==
    /\ blog # <<>>
    /\ blog[Len(blog)].op = "put"
    /\ ~blog[Len(blog)].flatten

\* the bucket lifecycle, for the last call c: what the path held before
\* the call (in pre) against what it holds after it (in heap)
Lifecycle(c) ==
    LET held == Resolve(pre, Ref(1), Nodes(c.path))
        now  == Resolve(heap, Ref(1), Nodes(c.path))
    IN  /\ IsArray(heap, now)
        /\ Items(heap, now) =
              (IF IsNil(held) THEN <<c.arg>>
               ELSE IF IsArray(pre, held) THEN Append(Items(pre, held), c.arg)
               ELSE <<held, c.arg>>)

\* C19 as stated: after a putIntoBucket call without flatten, for every
\* value and path, a path that held nothing holds [value], a path that held
\* a non-sequence e holds [e, value], and a path that held a sequence holds
\* it with value appended as one new last element.
C19_LifecycleAnyPath ==
    PutWithoutFlatten => Lifecycle(blog[Len(blog)])

\* C19 amended: the same, for a path of at least one segment and a call
\* that returns.
C19_Lifecycle ==
    (/\ PutWithoutFlatten
     /\ blog[Len(blog)].st = "return"
     /\ Nodes(blog[Len(blog)].path) # <<>>) =>
        Lifecycle(blog[Len(blog)])

\* an array was put, as one element, behind the 0 the path held
C19_Witness ==
    /\ PutWithoutFlatten
    /\ blog[Len(blog)].st = "return"
    /\ Resolve(pre, Ref(1), Nodes(blog[Len(blog)].path)) = Num(0)
    /\ IsArray(heap, blog[Len(blog)].arg)
    /\ Items(heap, Resolve(heap, Ref(1), Nodes(blog[Len(blog)].path)))
          = <<Num(0), blog[Len(blog)].arg>>

\* one path is a prefix of the other (or they are the same path)
IsPrefix(a, b) == Len(a) <= Len(b) /\ SubSeq(b, 1, Len(a)) = a

Overlap(p, q) ==
    IsPrefix(Nodes(p), Nodes(q)) \/ IsPrefix(Nodes(q), Nodes(p))

\* a scenario of C20 for the path p: p held nothing at the start, and every
\* call so far on a path that overlaps p is a putIntoBucket call on p
\* without flatten, of which there is at least one
OnPath(p) ==
    LET Touches(e) == Overlap(e.path, p) IN SelectSeq(blog, Touches)

OnlyPutsOn(p) ==
    /\ IsNil(Resolve(start, Ref(1), Nodes(p)))
    /\ OnPath(p) # <<>>
    /\ \A j \in DOMAIN OnPath(p) :
          /\ OnPath(p)[j].op = "put"
          /\ ~OnPath(p)[j].flatten
          /\ Nodes(OnPath(p)[j].path) = Nodes(p)

\* p holds the values put on it, in call order
HoldsThePuts(p) ==
    LET now == Resolve(heap, Ref(1), Nodes(p))
    IN  /\ IsArray(heap, now)
        /\ Items(heap, now) = [j \in DOMAIN OnPath(p) |-> OnPath(p)[j].arg]

\* C20 as stated: from a mapping with nothing at p, after n >= 1
\* putIntoBucket calls on p without flatten, with values v1..vn, p holds
\* [v1, .., vn], whatever calls on paths that do not overlap p were made in
\* between.
C20_PutsAccumulateAlways ==
    \A p \in {bucketKey, otherKey} : OnlyPutsOn(p) => HoldsThePuts(p)

\* a call on another path was given, as the value to store, the bucket a
\* call on p returned (a putIntoBucket call with flatten copies it)
BucketHandedOn(p) ==
    \E j, k \in DOMAIN blog :
        /\ blog[j].op = "put" /\ blog[j].st = "return" /\ Overlap(blog[j].path, p)
        /\ ~Overlap(blog[k].path, p)
        /\ blog[k].arg = blog[j].res
        /\ ~(blog[k].op = "put" /\ blog[k].flatten)

\* C20 amended: the same, when the first call on p returns and no call on
\* another path is handed the bucket of p to store.
C20_PutsAccumulate ==
    \A p \in {bucketKey, otherKey} :
        (OnlyPutsOn(p) /\ OnPath(p)[1].st = "return" /\ ~BucketHandedOn(p)) =>
            HoldsThePuts(p)

\* two differing values were put on a path created through a missing
\* intermediate, with a call on another path in between
C20_Witness ==
    /\ OnlyPutsOn(bucketKey)
    /\ ~BucketHandedOn(bucketKey)
    /\ Len(Nodes(bucketKey)) >= 2
    /\ Len(blog) = 3
    /\ blog[1].path = bucketKey /\ blog[1].st = "return"
    /\ blog[2].path # bucketKey /\ blog[2].st = "return"
    /\ blog[3].path = bucketKey
    /\ blog[1].arg # blog[3].arg
    /\ HoldsThePuts(bucketKey)

\* the last call of the scenario is a putIntoBucket call with flatten set
\* and an array as the value
PutFlattened ==
    /\ blog # <<>>
    /\ blog[Len(blog)].op = "put"
    /\ blog[Len(blog)].flatten
    /\ IsArray(pre, blog[Len(blog)].arg)

\* the elements of the value [x1..xk] are spliced behind what the path held
Spliced(c) ==
    LET held == Resolve(pre, Ref(1), Nodes(c.path))
        now  == Resolve(heap, Ref(1), Nodes(c.path))
        xs   == Items(pre, c.arg)
    IN  /\ IsArray(heap, now)
        /\ Items(heap, now) =
              (IF IsNil(held) THEN xs
               ELSE IF IsArray(pre, held) THEN Items(pre, held) \o xs
               ELSE <<held>> \o xs)

\* C21 as stated: after putIntoBucket with flatten set and a sequence
\* value [x1..xk], a path that held a bucket [a1..an] holds
\* [a1..an, x1..xk], a path that held nothing holds [x1..xk], and a path
\* that held a non-sequence e holds [e, x1..xk], for every path.
C21_FlattenSplicesAnyPath ==
    PutFlattened => Spliced(blog[Len(blog)])

\* C21 amended: the same, for a path of at least one segment and a call
\* that returns.
C21_FlattenSplices ==
    (/\ PutFlattened
     /\ blog[Len(blog)].st = "return"
     /\ Nodes(blog[Len(blog)].path) # <<>>) =>
        Spliced(blog[Len(blog)])

\* [1, 2] was spliced behind the two elements of an existing bucket
C21_Witness ==
    /\ PutFlattened
    /\ blog[Len(blog)].st = "return"
    /\ IsArray(pre, Resolve(pre, Ref(1), Nodes(blog[Len(blog)].path)))
    /\ Len(Items(heap, Resolve(heap, Ref(1), Nodes(blog[Len(blog)].path)))) >= 4
    /\ Items(pre, blog[Len(blog)].arg) = <<Num(1), Num(2)>>
    /\ Spliced(blog[Len(blog)])

\* C22: once a path holds a sequence, a returned putIntoBucket call on
\* that path, with or without flatten, leaves the same sequence object at
\* the path (the value is appended in place).
C22_AppendsInPlace ==
    (/\ blog # <<>>
     /\ blog[Len(blog)].op = "put"
     /\ blog[Len(blog)].st = "return"
     /\ IsArray(pre, Resolve(pre, Ref(1), Nodes(blog[Len(blog)].path)))) =>
        Resolve(heap, Ref(1), Nodes(blog[Len(blog)].path))
            = Resolve(pre, Ref(1), Nodes(blog[Len(blog)].path))

\* What does hold: without flatten, or with a value that is not a
\* sequence, the sequence at the path stays the same object.
Put_AppendsInPlaceUnlessFlattened ==
    (/\ blog # <<>>
     /\ blog[Len(blog)].op = "put"
     /\ blog[Len(blog)].st = "return"
     /\ ~PutFlattened
     /\ IsArray(pre, Resolve(pre, Ref(1), Nodes(blog[Len(blog)].path)))) =>
        Resolve(heap, Ref(1), Nodes(blog[Len(blog)].path))
            = Resolve(pre, Ref(1), Nodes(blog[Len(blog)].path))

\* the last call is a putIntoBucket call that returned
PutReturned ==
    /\ blog # <<>>
    /\ blog[Len(blog)].op = "put"
    /\ blog[Len(blog)].st = "return"

\* getValueByPath(m, p) yields the bucket the call returned
ReadsReturnedBucket(c) ==
    getValueByPath(heap, Ref(1), c.path, Undefined) = Return(c.res)

\* C23 as stated: after every putIntoBucket call that returns,
\* getValueByPath(m, p) yields the returned bucket, for every path.
C23_ReturnsStoredBucketAnyPath ==
    PutReturned => ReadsReturnedBucket(blog[Len(blog)])

\* C23 amended: the same, for a path of at least one segment.
C23_ReturnsStoredBucket ==
    (PutReturned /\ Nodes(blog[Len(blog)].path) # <<>>) =>
        ReadsReturnedBucket(blog[Len(blog)])

\* a flattening call on an existing bucket returned a new array, and that
\* array is what the path holds
C23_Witness ==
    /\ PutReturned
    /\ PutFlattened
    /\ IsArray(pre, Resolve(pre, Ref(1), Nodes(blog[Len(blog)].path)))
    /\ blog[Len(blog)].res # Resolve(pre, Ref(1), Nodes(blog[Len(blog)].path))
    /\ ReadsReturnedBucket(blog[Len(blog)])

\* call j is a returned putIntoBucket call with flatten set and an array
\* as the value
FlattenedAt(j) ==
    /\ blog[j].op = "put"
    /\ blog[j].flatten
    /\ blog[j].st = "return"
    /\ IsArray(heap, blog[j].arg)

\* the caller has not itself stored the value of call j with a later
\* setValueByPath call
NotStoredByCaller(j) ==
    \A k \in DOMAIN blog :
        (k > j /\ blog[k].op = "set") => blog[k].arg # blog[j].arg

\* C24: a putIntoBucket call with flatten set never makes the array it
\* was given the bucket: the bucket it returns and stores is another
\* array, and a later putIntoBucket call on the same path leaves the
\* caller's array as it was (unless the caller itself stored that array
\* there with setValueByPath in between).
C24_FlattenCopies ==
    \A j \in DOMAIN blog :
        FlattenedAt(j) =>
            /\ blog[j].res # blog[j].arg
            /\ j = Len(blog) =>
                  getValueByPath(heap, Ref(1), blog[j].path, Undefined).val
                      # blog[j].arg
            /\ (/\ j < Len(blog)
                /\ blog[Len(blog)].op = "put"
                /\ blog[Len(blog)].path = blog[j].path
                /\ NotStoredByCaller(j)) =>
                  heap[blog[j].arg.n] = pre[blog[j].arg.n]

\* [1, 2] was put with flatten on a path holding nothing, a later call
\* appended to the bucket, and the caller's array is still [1, 2]
C24_Witness ==
    /\ Len(blog) >= 2
    /\ FlattenedAt(1)
    /\ IsNil(Resolve(start, Ref(1), Nodes(blog[1].path)))
    /\ blog[Len(blog)].op = "put"
    /\ blog[Len(blog)].st = "return"
    /\ ~blog[Len(blog)].flatten
    /\ blog[Len(blog)].path = blog[1].path
    /\ Items(heap, blog[1].arg) = <<Num(1), Num(2)>>
    /\ Len(Items(heap, Resolve(heap, Ref(1), Nodes(blog[1].path)))) = 3

\* -------------------------------------------------- orchestrator properties
Failed(c)    == c.st \in {"rejected", "thrown"}
Succeeded(c) == c.st \in {"fulfilled", "returned"}

\* the check the documentation describes: the predicate when one is given,
\* the result's own truthiness otherwise
DocumentedCheck(pr, result) ==
    IF pr.given THEN result \in pr.yes ELSE Truthy(result)

\* ifAnyPromise_ has resolved with a pair [index, result]
FoundPair == fn = "ifAnyPromise_" /\ outer.st = "fulfilled" /\ outer.val = ArrayValue

\* C3: when a predicate is given, a result the predicate returns false for
\* is never reported as the match, whatever its own truthiness.
C3_PredicateAloneDecides ==
    (FoundPair /\ predicate.given) => outer.items[2] \in predicate.yes

\* C4: eachPromise_ invokes factory k (k >= 1) with the result of factory
\* k-1 as its argument.
C4_PreviousResultThreaded ==
    fn = "eachPromise_" =>
        \A j \in DOMAIN calls :
            calls[j].idx >= 1 =>
                /\ Invoked(calls[j].idx - 1)
                /\ calls[j].arg = CallOf(calls[j].idx - 1).val

\* C6: in one invocation of eachPromise_, ifAnyPromise_ or eachAsync_ at
\* most one factory/iterator call is in flight; calls start in list order,
\* and a call starts only when the result of the one before it is there.
C6_OneCallAtATime ==
    /\ Cardinality({j \in DOMAIN calls : calls[j].st = "pending"}) <= 1
    /\ \A j \in DOMAIN calls :
        /\ calls[j].idx = j - 1
        /\ j < Len(calls) => Succeeded(calls[j])

\* a later call is in flight after an earlier one has delivered its result
C6_Witness ==
    /\ fn = "eachPromise_"
    /\ Len(calls) >= 2
    /\ calls[1].st = "fulfilled"
    /\ calls[Len(calls)].st = "pending"

AllSucceed ==
    \A j \in DOMAIN arrayOfPromiseFactory :
        arrayOfPromiseFactory[j].kind \in {"resolve", "value"}

\* C7: when every factory succeeds, eachPromise_ resolves (it is never
\* rejected and never stuck) with the factories' results in list order,
\* one per factory, and only after every factory has completed.
C7_ResultsInOrder ==
    (fn = "eachPromise_" /\ AllSucceed) =>
        /\ outer.st # "rejected"
        /\ outer.st = "pending" => ENABLED OrchNext
        /\ outer.st = "fulfilled" =>
            /\ outer.val = ArrayValue
            /\ outer.items = [j \in DOMAIN arrayOfPromiseFactory |->
                                 arrayOfPromiseFactory[j].val]
            /\ \A k \in 0..(Len(arrayOfPromiseFactory) - 1) :
                  Invoked(k) /\ Succeeded(CallOf(k))

\* resolved with several results that differ
C7_Witness ==
    /\ fn = "eachPromise_"
    /\ outer.st = "fulfilled"
    /\ Len(outer.items) >= 2
    /\ outer.items[1] # outer.items[2]

\* C8: when factory k fails (its promise is rejected, or it throws),
\* eachPromise_ is rejected with that same failure (it never resolves, is
\* never stuck), no factory after k is invoked and no result is delivered.
C8_FailFast ==
    fn = "eachPromise_" =>
        \A k \in 0..(Len(arrayOfPromiseFactory) - 1) :
            (Invoked(k) /\ Failed(CallOf(k))) =>
                /\ \A j \in DOMAIN calls : calls[j].idx <= k
                /\ outer.st # "fulfilled"
                /\ outer.items = <<>>
                /\ outer.st = "pending" => ENABLED OrchNext
                /\ outer.st = "rejected" => outer.val = CallOf(k).val

\* rejected by the failure of a later factory: results were collected and
\* are dropped, and a factory is left that was never invoked
C8_Witness ==
    /\ fn = "eachPromise_"
    /\ outer.st = "rejected"
    /\ Len(accumulator) >= 1
    /\ Len(calls) < Len(arrayOfPromiseFactory)
    /\ outer.val = calls[Len(calls)].val

\* C9: ifAnyPromise_ resolves with [i, result_i] where i is the smallest
\* index whose result passes the check, and invokes no factory after i.
C9_FirstMatchWins ==
    FoundPair =>
        LET idx == outer.items[1].n
        IN  /\ Invoked(idx)
            /\ outer.items[2] = CallOf(idx).val
            /\ DocumentedCheck(predicate, outer.items[2])
            /\ \A j \in DOMAIN calls :
                /\ calls[j].idx <= idx
                /\ calls[j].idx < idx => ~DocumentedCheck(predicate, calls[j].val)

\* C10: ifAnyPromise_ resolves with undefined (never a pair) exactly when
\* no factory's result passes the check, and then every factory has been
\* invoked exactly once.
C10_NothingFound ==
    (fn = "ifAnyPromise_" /\ outer.st = "fulfilled") =>
        /\ outer.val = Undefined <=>
              \A j \in DOMAIN calls : ~DocumentedCheck(predicate, calls[j].val)
        /\ outer.val = Undefined =>
              /\ Len(calls) = Len(arrayOfPromiseFactory)
              /\ \A j \in DOMAIN calls : calls[j].idx = j - 1

\* What does hold of ifAnyPromise_, with the check the code applies
\* (Matches) in place of the documented one: the pair is the first result
\* that check passes and no later factory is invoked; undefined is the
\* outcome exactly when no result passes it, every factory invoked once.
IfAny_FirstMatchOfAppliedCheck ==
    FoundPair =>
        LET idx == outer.items[1].n
        IN  /\ Invoked(idx)
            /\ outer.items[2] = CallOf(idx).val
            /\ Matches(predicate, outer.items[2])
            /\ \A j \in DOMAIN calls :
                /\ calls[j].idx <= idx
                /\ calls[j].idx < idx => ~Matches(predicate, calls[j].val)

IfAny_NothingFoundOfAppliedCheck ==
    (fn = "ifAnyPromise_" /\ outer.st = "fulfilled") =>
        /\ outer.val = Undefined <=>
              \A j \in DOMAIN calls : ~Matches(predicate, calls[j].val)
        /\ outer.val = Undefined =>
              /\ Len(calls) = Len(arrayOfPromiseFactory)
              /\ \A j \in DOMAIN calls : calls[j].idx = j - 1

\* C11: in ifAnyPromise_ and eachAsync_, when a factory or iterator call
\* fails (its promise is rejected, or it throws), the promise the function
\* returned is rejected with that same error, unchanged; the failure never
\* escapes as a synchronous throw (the outcome is always that of the
\* returned promise), the promise never resolves and is never stuck, and no
\* later factory or iterator call is made.
C11_FailurePropagates ==
    fn \in {"ifAnyPromise_", "eachAsync_"} =>
        \A j \in DOMAIN calls :
            Failed(calls[j]) =>
                /\ j = Len(calls)
                /\ outer.st \in {"pending", "rejected"}
                /\ outer.st = "pending" => ENABLED OrchNext
                /\ outer.st = "rejected" => outer.val = calls[j].val

\* eachAsync_ is rejected by an iterator call that threw, after results
\* were collected and with elements left that the iterator never saw
C11_Witness ==
    /\ fn = "eachAsync_"
    /\ outer.st = "rejected"
    /\ Len(r) >= 1
    /\ Len(calls) < Len(iterator)
    /\ calls[Len(calls)].st = "thrown"
    /\ outer.val = calls[Len(calls)].val

IteratorSucceeds ==
    \A j \in DOMAIN iterator : iterator[j].kind \in {"resolve", "value"}

\* C12: eachAsync_ on an array or a plain object whose iterator calls all
\* succeed resolves (it is never rejected, never stuck) with a collection
\* of the same kind that has exactly the keys of the input, in the same
\* order (indices 0..length-1 for an array), where the entry of key k is
\* the result of the one iterator call made with (value_k, k).
C12_MapsEveryEntry ==
    (fn = "eachAsync_" /\ Branch(obj) # "invalid" /\ IteratorSucceeds) =>
        /\ outer.st # "rejected"
        /\ outer.st = "pending" => ENABLED OrchNext
        /\ outer.st = "fulfilled" =>
            /\ outer.val = (IF obj.kind = "arr" THEN ArrayValue ELSE ObjectValue)
            /\ Len(outer.items) = Len(obj.vals)
            /\ Len(calls) = Len(obj.vals)
            /\ \A j \in DOMAIN obj.vals :
                /\ outer.items[j].key = obj.keys[j]
                /\ calls[j].arg = obj.vals[j]
                /\ calls[j].key = obj.keys[j]
                /\ outer.items[j].val = calls[j].val
                /\ outer.items[j].val = iterator[j].val

\* a plain object of several keys was mapped to differing results
C12_Witness ==
    /\ fn = "eachAsync_"
    /\ obj.kind = "obj"
    /\ outer.st = "fulfilled"
    /\ Len(outer.items) >= 2
    /\ outer.items[1].val # outer.items[2].val

\* C13: eachAsync_ on a collection that is neither an array nor a plain
\* object never invokes the iterator, and the promise it returned is
\* rejected (with 'Invalid argument!'); it never resolves and the failure
\* is not a synchronous throw.
C13_InvalidCollectionRejected ==
    (fn = "eachAsync_" /\ obj.kind \notin {"arr", "obj"}) =>
        /\ calls = <<>>
        /\ outer.st \in {"pending", "rejected"}
        /\ outer.st = "pending" => ENABLED OrchNext
        /\ outer.st = "rejected" => outer.val = InvalidArgument

\* rejected although the collection has entries the iterator could visit
C13_Witness ==
    /\ fn = "eachAsync_"
    /\ obj.kind = "other"
    /\ Len(obj.vals) >= 2
    /\ outer = Rejected(InvalidArgument)
    /\ calls = <<>>

\* ------------------------------------------------------ waitUntil_ properties
\* the positions in the log where the checker was invoked
Invocations == {j \in DOMAIN wait.log : wait.log[j].e = "call"}

\* C25: waitUntil_ resolves with the first truthy result of the checker and
\* does not invoke the checker after it; every invocation but the first
\* comes right after a delay of checkInterval that was started after the
\* previous result and has elapsed; and an invocation is settled before the
\* next one is made.
C25_ChecksInTurn ==
    /\ \A j \in DOMAIN wait.log :
          (wait.log[j].e = "result" /\ Truthy(wait.log[j].val)) =>
              /\ j = Len(wait.log)
              /\ wait.pc = "done"
              /\ wait.outer = Fulfilled(wait.log[j].val)
    /\ \A j \in Invocations :
          j > 1 =>
              /\ j > 3
              /\ wait.log[j - 1] = Event("elapsed", Undefined)
              /\ wait.log[j - 2] = Event("delay", Num(wait.checkInterval))
              /\ wait.log[j - 3].e = "result"
    /\ \A j \in Invocations :
          j < Len(wait.log) => wait.log[j + 1].e \in {"result", "fail"}

\* two checks came back falsy, the third invocation returned a truthy
\* value and the call resolved with it
C25_Witness ==
    /\ Cardinality(Invocations) = 3
    /\ wait.pc = "done"
    /\ wait.outer.st = "fulfilled"
    /\ Truthy(wait.outer.val)
    /\ wait.log[Len(wait.log)] = Event("result", wait.outer.val)

\* C29: for every maxRounds >= 0 the checker is invoked at most
\* maxRounds + 1 times, and a call that saw no truthy result resolves with
\* the last result of the checker.
C29_AtMostRoundsPlusOne ==
    /\ Cardinality(Invocations) <= wait.maxRounds + 1
    /\ (wait.pc = "done" /\ wait.outer.st = "fulfilled") =>
          wait.outer.val = wait.log[Len(wait.log)].val

\* What does hold: at most maxRounds + 1 invocations for maxRounds >= 1, at
\* most two for maxRounds = 0 (the body of the do-while loop runs once
\* before maxRounds is looked at), and the last result is the one resolved.
Wait_AtMostRoundsPlusOneFromOne ==
    /\ wait.maxRounds >= 1 => Cardinality(Invocations) <= wait.maxRounds + 1
    /\ wait.maxRounds = 0 => Cardinality(Invocations) <= 2
    /\ (wait.pc = "done" /\ wait.outer.st = "fulfilled") =>
          wait.outer.val = wait.log[Len(wait.log)].val

\* when every invocation of the checker settles, the call settles
Wait_Terminates == <>(wait.pc = "done" /\ wait.outer.st # "pending")

\* ----------------------------------------------------- runCmdLive_ properties
\* the positions of the 'close' events and of the 'error' events before
\* position k
Closes == {j \in DOMAIN cmd.events : cmd.events[j].e = "close"}
ErrorsBefore(k) == {j \in 1..(k - 1) : cmd.events[j].e = "error"}
FirstOf(S) == CHOOSE j \in S : \A k \in S : j <= k
LastOf(S) == CHOOSE j \in S : \A k \in S : j >= k

\* C26: once the child process is spawned, the promise of runCmdLive_ is
\* pending until the child emits 'close', and from the first 'close' on
\* it is rejected with the error emitted before that 'close' (the last one,
\* when there were several) or, when there was none, resolved with the
\* exit code of that 'close'; errors without a 'close' and events after
\* the first 'close' change nothing.
C26_SettlesOnClose ==
    cmd.pc = "spawned" =>
        IF Closes = {} THEN cmd.outer = Pending
        ELSE LET k == FirstOf(Closes)
             IN  IF ErrorsBefore(k) = {}
                 THEN cmd.outer = Fulfilled(cmd.events[k].val)
                 ELSE cmd.outer = Rejected(cmd.events[LastOf(ErrorsBefore(k))].val)

\* an error, then 'close', then another error and another 'close': the
\* promise is rejected with the first error
C26_Witness ==
    /\ cmd.pc = "spawned"
    /\ Len(cmd.events) = 4
    /\ cmd.events[1] = Event("error", Err(1))
    /\ cmd.events[2].e = "close"
    /\ cmd.events[3] = Event("error", Err(2))
    /\ cmd.events[4].e = "close"
    /\ cmd.outer = Rejected(Err(1))

\* a settled promise stays as it is
Cmd_SettledStays ==
    [][cmd.outer.st # "pending" => cmd'.outer = cmd.outer]_vars

\* -------------------------------------------------- string helper properties
\* the parts that are not empty once their '/' characters are trimmed
Kept(parts) == SelectSeq(parts, LAMBDA p : Trim(p, "/") # <<>>)

\* C27: urlJoin(base, ...parts) equals urlJoin(base, ...) of the parts
\* that are not empty after trimming '/', also when no part is left and
\* the right-hand side is urlJoin(base).
C27_IgnoresEmptyParts ==
    (strCall.fn = "urlJoin" /\ strCall.done) =>
        strCall.out = urlJoin(strCall.base, Kept(strCall.parts))

\* What does hold: the equation, whenever a part is left or the base is
\* neither '' nor '/'.
UrlJoin_IgnoresEmptyPartsOffRoot ==
    (/\ strCall.fn = "urlJoin"
     /\ strCall.done
     /\ Kept(strCall.parts) # <<>> \/ strCall.base \notin {<<>>, <<"/">>}) =>
        strCall.out = urlJoin(strCall.base, Kept(strCall.parts))

\* C30: dropRightIfEndsWith(str, right) is str when str does not end with
\* right, and otherwise the prefix r of str with r + right = str; for the
\* empty string right that prefix is str.
C30_DropsTheSuffix ==
    (strCall.fn = "dropRightIfEndsWith" /\ strCall.done) =>
        IF EndsWith(strCall.str, strCall.right)
        THEN strCall.out \o strCall.right = strCall.str
        ELSE strCall.out = strCall.str

\* What does hold: the same for every right that is not the empty string.
Drop_DropsNonEmptySuffix ==
    (/\ strCall.fn = "dropRightIfEndsWith"
     /\ strCall.done
     /\ strCall.right # <<>>) =>
        IF EndsWith(strCall.str, strCall.right)
        THEN strCall.out \o strCall.right = strCall.str
        ELSE strCall.out = strCall.str

=============================================================================
